---------------------------- MODULE Spec2Model ----------------------------
(***************************************************************************)
(* youtube-transcripts-bot: the ingestion script (main.py) that turns the  *)
(* rows of a Google Sheet into Google Docs, and the Flask app (app.py)     *)
(* that serves those documents back as JSON.                               *)
(*                                                                         *)
(* A Python str is a sequence of one-character strings; None is the value  *)
(* NoneVal, which is no text.  The Sheets, Docs, Drive and transcript      *)
(* services are the environment: each call either raises or answers, and   *)
(* the variables cells and docs hold what the services store.              *)
(***************************************************************************)
EXTENDS Integers, Sequences, FiniteSets, TLC

VARIABLES
    cells,       \* the spreadsheet: sheet name -> (<<column letter, row>> -> text)
    firstSheet,  \* the spreadsheet's first visible sheet
    docs,        \* the document store: document id (position) -> document
    pc,          \* process_sheet: "idle" (not running) or "rows" (in the loop)
    rows,        \* process_sheet: values[1:] as read at the start of the run
    index,       \* process_sheet: the loop's index (0-based)
    runsLeft,    \* the runs of process_sheet still to start
    calls,       \* the calls made by the latest step of process_sheet, in order
    faults,      \* the service calls that raised or answered with nothing so far
    response     \* the Flask app's latest response since the store last changed

vars == <<cells, firstSheet, docs, pc, rows, index, runsLeft, calls, faults, response>>

---------------------------------------------------------------------------
(* Bounds of the model. *)

\* data rows below the header row of a sheet
MaxRows == 2
\* runs of process_sheet
MaxRuns == 2
\* documents the store accepts before documents().create fails
MaxDocs == 2
\* service calls that raise or answer with nothing during the runs of process_sheet
MaxFaults == 1
\* pieces a URL of the extraction check is concatenated from
MaxPieces == 2
\* characters of a document body in the round-trip check
MaxBody == 4
\* characters of the longest text run the Docs API returns
MaxRunLen == 2

---------------------------------------------------------------------------
(* Python values and str methods. *)

NoneVal == <<"<None>">>

\* bool(x) for x a str or None
Truthy(x) == x # NoneVal /\ x # <<>>

\* the characters str.strip() removes
Whitespace == {" ", "\t", "\n", "\r", "\f"}

RECURSIVE LStrip(_)
LStrip(s) == IF s # <<>> /\ Head(s) \in Whitespace THEN LStrip(Tail(s)) ELSE s

RECURSIVE RStrip(_)
RStrip(s) ==
    IF s # <<>> /\ s[Len(s)] \in Whitespace THEN RStrip(SubSeq(s, 1, Len(s) - 1)) ELSE s

Strip(s) == RStrip(LStrip(s))

\* sep.join(parts)
RECURSIVE Join(_, _)
Join(sep, parts) ==
    IF parts = <<>> THEN <<>>
    ELSE IF Len(parts) = 1 THEN parts[1]
    ELSE parts[1] \o sep \o Join(sep, Tail(parts))

\* the concatenation of a sequence of texts
RECURSIVE Concat(_)
Concat(parts) == IF parts = <<>> THEN <<>> ELSE Head(parts) \o Concat(Tail(parts))

Min(S) == CHOOSE x \in S : \A y \in S : x <= y

---------------------------------------------------------------------------
(* main.py: configuration. *)

SHEET_NAME == "URL"
URL_COLUMN_INDEX == 0
PROCESSED_COLUMN_INDEX == 1
DOCS_FOLDER_ID == "16ZJiuP2PFNn8qeZ9wgscBP9PGh0j2xfo"

\* the length of the token the pattern of extract_video_id captures
IdLen == 11
\* update_sheet_row: the header row and the 0-based to 1-based conversion
RowOffset == 2

StatusProcessed == <<"P","r","o","c","e","s","s","e","d">>
StatusInvalidUrl ==
    <<"E","r","r","o","r",":"," ","I","n","v","a","l","i","d"," ","U","R","L">>
StatusNoInfo ==
    <<"E","r","r","o","r",":"," ","U","n","a","b","l","e"," ","t","o"," ",
      "r","e","t","r","i","e","v","e"," ","v","i","d","e","o"," ","i","n","f","o">>
StatusNoTranscript ==
    <<"E","r","r","o","r",":"," ","N","o"," ","t","r","a","n","s","c","r","i","p","t",
      " ","f","o","u","n","d">>
StatusDocFailed ==
    <<"E","r","r","o","r",":"," ","D","o","c"," ","c","r","e","a","t","i","o","n",
      " ","f","a","i","l","e","d">>

ErrorStatuses == {StatusInvalidUrl, StatusNoInfo, StatusNoTranscript, StatusDocFailed}

---------------------------------------------------------------------------
(* main.py: extract_video_id. *)

\* the character class [0-9A-Za-z_-]
IdChars ==
    {"0","1","2","3","4","5","6","7","8","9",
     "A","B","C","D","E","F","G","H","I","J","K","L","M",
     "N","O","P","Q","R","S","T","U","V","W","X","Y","Z",
     "a","b","c","d","e","f","g","h","i","j","k","l","m",
     "n","o","p","q","r","s","t","u","v","w","x","y","z",
     "_", "-"}

\* IdLen characters of the class start at position q of url
TokenAt(url, q) ==
    /\ q + IdLen - 1 <= Len(url)
    /\ \A k \in q .. (q + IdLen - 1) : url[k] \in IdChars

\* the length of the alternative (?:v=|\/) matched at position p, 0 when neither does
PrefixLen(url, p) ==
    IF url[p] = "/" THEN 1
    ELSE IF p < Len(url) /\ url[p] = "v" /\ url[p + 1] = "=" THEN 2
    ELSE 0

\* the pattern matches at position p
MatchAt(url, p) == PrefixLen(url, p) > 0 /\ TokenAt(url, p + PrefixLen(url, p))

\* extract_video_id taking the rightmost match instead of the leftmost
extract_video_id_LastMatch(url) ==
    LET at == {p \in 1 .. Len(url) : MatchAt(url, p)}
    IN  IF at = {} THEN NoneVal
        ELSE LET p == CHOOSE x \in at : \A y \in at : y <= x
                 q == p + PrefixLen(url, p)
             IN  SubSeq(url, q, q + IdLen - 1)

\* re.search takes the leftmost match; group(1) is the token after its prefix
extract_video_id(url) ==
    LET at == {p \in 1 .. Len(url) : MatchAt(url, p)}
    IN  IF at = {} THEN NoneVal
        ELSE LET p == Min(at)
                 q == p + PrefixLen(url, p)
             IN  SubSeq(url, q, q + IdLen - 1)

---------------------------------------------------------------------------
(* The spreadsheet, as the Sheets API shows it. *)

\* the sheet process_sheet reads, and another sheet of the same spreadsheet
Sheets == {SHEET_NAME, "Sheet1"}
Cols == <<"A", "B">>
GridRows == 1 .. (MaxRows + 1)
Grid == {<<c, r>> : c \in {"A", "B"}, r \in GridRows}

\* chr(ord('A') + i)
ColumnLetter(i) == Cols[i + 1]

\* one row of values().get: the cells of columns A:B, trailing empty cells omitted
RowValues(sheet, r) ==
    LET a == cells[sheet][<<"A", r>>]
        b == cells[sheet][<<"B", r>>]
    IN  IF b # <<>> THEN <<a, b>> ELSE IF a # <<>> THEN <<a>> ELSE <<>>

\* values().get(range="<sheet>!A:B"): the rows down to the last non-empty one
ValuesGet(sheet) ==
    LET used == {r \in GridRows : RowValues(sheet, r) # <<>>}
        last == IF used = {} THEN 0 ELSE CHOOSE r \in used : \A q \in used : q <= r
    IN  [r \in 1 .. last |-> RowValues(sheet, r)]

\* an A1 range that names no sheet ("B2", not "URL!B2")
NoSheet == ""

\* the sheet an A1 range names; a range without a sheet name is on the first
\* visible sheet
RangeSheet(range) == IF range.sheet = NoSheet THEN firstSheet ELSE range.sheet

\* values().update(range, body={"values": [[value]]}) on one cell
ValuesUpdate(range, value) ==
    [cells EXCEPT ![RangeSheet(range)][<<range.col, range.row>>] = value]

---------------------------------------------------------------------------
(* main.py: update_sheet_row. *)

\* the range string f"{chr(ord('A') + PROCESSED_COLUMN_INDEX)}{row_index + 2}"
StatusCell(row_index) ==
    [sheet |-> NoSheet,
     col   |-> ColumnLetter(PROCESSED_COLUMN_INDEX),
     row   |-> row_index + RowOffset]

\* the spreadsheet after update_sheet_row; ok: the update call did not raise
update_sheet_row(row_index, status, ok) ==
    IF ok THEN ValuesUpdate(StatusCell(row_index), status) ELSE cells

---------------------------------------------------------------------------
(* main.py: get_video_info and get_transcript. *)

\* what pytube answers for a URL: it raises, or gives a title and an author
InfoOutcomes ==
    {[raises |-> TRUE,  title |-> <<>>,    author |-> <<>>],
     [raises |-> FALSE, title |-> <<"T">>, author |-> <<"C">>],
     [raises |-> FALSE, title |-> <<>>,    author |-> <<"C">>]}

get_video_info(o) == IF o.raises THEN <<NoneVal, NoneVal>> ELSE <<o.title, o.author>>

\* what YouTubeTranscriptApi.get_transcript does: it raises one of the
\* exceptions, or ("none") returns the items' texts
TranscriptExceptions ==
    {"TranscriptsDisabled", "NoTranscriptFound", "VideoUnavailable", "Exception"}

TranscriptOutcomes ==
    [exc : TranscriptExceptions, items : {<<>>}]
    \cup [exc : {"none"}, items : {<<>>, << <<"a">>, <<"b", " ">> >>}]

\* get_transcript returning the error's text from its except clauses
get_transcript_ErrorText(o) ==
    IF o.exc = "none" THEN Join(<<"\n">>, o.items) ELSE <<"e", "r", "r", "o", "r">>

get_transcript(o) == IF o.exc = "none" THEN Join(<<"\n">>, o.items) ELSE NoneVal

---------------------------------------------------------------------------
(* main.py: create_google_doc, and the Docs and Drive services behind it. *)

\* the calls of create_google_doc, in order; "none": none of them raises
Stages == <<"create", "batchUpdate", "get", "update", "none">>
StageSet == {Stages[k] : k \in 1 .. Len(Stages)}
StageNo(st) == CHOOSE k \in 1 .. Len(Stages) : Stages[k] = st

\* the call st is made and does not raise when the first raising call is failAt
Done(st, failAt) == StageNo(st) < StageNo(failAt)

\* the identifier of the n-th document of the store
DocId(n) == <<"doc", n>>

\* documents().create: an empty document (its body is one newline) in the
\* service account's root folder.  row, content: the source row and the
\* content it was created for (history, not stored by the service)
NewDoc(title, content, row) ==
    [title |-> title, text |-> <<"\n">>, parents |-> {"root"},
     row |-> row, content |-> content, inserted |-> FALSE]

\* insertText at index 1: the text goes before the body's final newline
InsertText(doc, text) == [doc EXCEPT !.text = text \o doc.text, !.inserted = TRUE]

\* files().update(addParents=DOCS_FOLDER_ID, removeParents=<all previous>)
MoveDoc(doc) == [doc EXCEPT !.parents = {DOCS_FOLDER_ID}]

\* the calls that raise whatever the caller wants: documents().create on a
\* full store, insertText of an empty text
MustFail(content) ==
    {st \in {"create"} : Len(docs) >= MaxDocs} \cup {st \in {"batchUpdate"} : content = <<>>}

\* the first call that raises, given the environment's choice failAt
FirstFail(content, failAt) ==
    LET f == MustFail(content) \cup {failAt}
    IN  Stages[Min({StageNo(st) : st \in f})]

\* the environment's choice is the call that raises
Injected(content, failAt) == failAt # "none" /\ FirstFail(content, failAt) = failAt

\* the document store after create_google_doc(doc_title, content)
DocsAfter(doc_title, content, row, failAt) ==
    LET f  == FirstFail(content, failAt)
        d0 == NewDoc(doc_title, content, row)
        d1 == IF Done("batchUpdate", f) THEN InsertText(d0, content) ELSE d0
        d2 == IF Done("update", f) THEN MoveDoc(d1) ELSE d1
    IN  IF Done("create", f) THEN Append(docs, d2) ELSE docs

\* what create_google_doc returns: the new document's id, or None
create_google_doc(doc_title, content, failAt) ==
    IF FirstFail(content, failAt) = "none" THEN DocId(Len(docs) + 1) ELSE NoneVal

---------------------------------------------------------------------------
(* main.py: process_sheet.  One step reads the sheet or runs one iteration *)
(* of the loop over the rows, with every call the iteration makes.         *)

\* a call, what it was given, what it returned, and the exception the service
\* behind it raised ("none": it did not raise)
CallExc(op, arg, result, exc) == [op |-> op, arg |-> arg, result |-> result, exc |-> exc]
Call(op, arg, result) == CallExc(op, arg, result, "none")

\* the range process_sheet reads: f"{SHEET_NAME}!A:B"
ReadRange == [sheet |-> SHEET_NAME, cols |-> <<"A", "B">>]

\* the marker test taking only "Processed" for a marker
MarkedProcessedOnly(row) ==
    /\ Len(row) > PROCESSED_COLUMN_INDEX
    /\ row[PROCESSED_COLUMN_INDEX + 1] = StatusProcessed

\* the marker test with the length check off by one
MarkedOffByOne(row) ==
    /\ Len(row) > PROCESSED_COLUMN_INDEX + 1
    /\ Truthy(Strip(row[PROCESSED_COLUMN_INDEX + 1]))

\* the test of the processed marker: the row has a status cell and it is not blank
Marked(row) ==
    /\ Len(row) > PROCESSED_COLUMN_INDEX
    /\ Truthy(Strip(row[PROCESSED_COLUMN_INDEX + 1]))

\* row[URL_COLUMN_INDEX].strip() if len(row) > URL_COLUMN_INDEX else None
UrlOf(row) ==
    IF Len(row) > URL_COLUMN_INDEX THEN Strip(row[URL_COLUMN_INDEX + 1]) ELSE NoneVal

\* f"Title: {title}\nChannel: {channel}\n\nTranscript:\n{transcript}"
DocContent(title, channel, transcript) ==
    <<"T","i","t","l","e",":"," ">> \o title
    \o <<"\n","C","h","a","n","n","e","l",":"," ">> \o channel
    \o <<"\n","\n","T","r","a","n","s","c","r","i","p","t",":","\n">> \o transcript

\* the row of the current iteration
Row == rows[index + 1]
InLoop == pc = "rows" /\ index < Len(rows)

\* the end of an iteration that leaves the sheet and the documents alone
Continue(made) ==
    /\ calls' = made
    /\ index' = index + 1
    /\ UNCHANGED <<cells, firstSheet, docs, pc, rows, runsLeft, faults, response>>

\* 1 for a call that raised or answered with nothing, 0 for one that did not
Raised(b) == IF b THEN 1 ELSE 0

\* update_sheet_row letting the exception of a failed write out: the handler
\* of process_sheet catches it and the run is over
WriteStatusRaises(made, status, raised, ok) ==
    /\ faults + raised + Raised(~ok) <= MaxFaults
    /\ faults' = faults + raised + Raised(~ok)
    /\ cells' = update_sheet_row(index, status, ok)
    /\ calls' = Append(made, CallExc("update_sheet_row", <<index, status>>, ok,
                                      IF ok THEN "none" ELSE "Exception"))
    /\ IF ok THEN index' = index + 1 /\ UNCHANGED <<pc, rows>>
             ELSE index' = 0 /\ pc' = "idle" /\ rows' = <<>>
    /\ UNCHANGED <<firstSheet, runsLeft, response>>

\* the end of an iteration that writes a status; raised: the calls that failed
\* before the write, ok: the write did not raise
WriteStatus(made, status, raised, ok) ==
    /\ faults + raised + Raised(~ok) <= MaxFaults
    /\ faults' = faults + raised + Raised(~ok)
    /\ cells' = update_sheet_row(index, status, ok)
    /\ calls' = Append(made, CallExc("update_sheet_row", <<index, status>>, ok,
                                      IF ok THEN "none" ELSE "Exception"))
    /\ index' = index + 1
    /\ UNCHANGED <<firstSheet, pc, rows, runsLeft, response>>

\* values().get raises: the outer handler logs it and the run is over
ReadFails ==
    /\ pc = "idle" /\ runsLeft > 0
    /\ faults < MaxFaults
    /\ faults' = faults + 1
    /\ runsLeft' = runsLeft - 1
    /\ calls' = <<CallExc("values.get", ReadRange.sheet, FALSE, "Exception")>>
    /\ UNCHANGED <<cells, firstSheet, docs, pc, rows, index, response>>

\* not values or len(values) < 2: nothing to do
ReadNoData ==
    /\ pc = "idle" /\ runsLeft > 0
    /\ Len(ValuesGet(ReadRange.sheet)) < 2
    /\ runsLeft' = runsLeft - 1
    /\ calls' = <<Call("values.get", ReadRange.sheet, TRUE)>>
    /\ UNCHANGED <<cells, firstSheet, docs, pc, rows, index, faults, response>>

\* rows = values[1:], and the loop starts
ReadRows ==
    /\ pc = "idle" /\ runsLeft > 0
    /\ Len(ValuesGet(ReadRange.sheet)) >= 2
    /\ runsLeft' = runsLeft - 1
    /\ rows' = Tail(ValuesGet(ReadRange.sheet))
    /\ index' = 0
    /\ pc' = "rows"
    /\ calls' = <<Call("values.get", ReadRange.sheet, TRUE)>>
    /\ UNCHANGED <<cells, firstSheet, docs, faults, response>>

\* the row bears a processed marker: continue
SkipProcessed ==
    /\ InLoop /\ Marked(Row)
    /\ Continue(<<>>)

\* the row has no URL: continue
SkipNoUrl ==
    /\ InLoop /\ ~Marked(Row) /\ ~Truthy(UrlOf(Row))
    /\ Continue(<<>>)

\* the row of the current iteration is handled: it is not marked and has a URL.
\* (The values an iteration computes are bound by \E over one-element sets,
\* which evaluates each of them once.)
Pending == InLoop /\ ~Marked(Row) /\ Truthy(UrlOf(Row))

\* no video id in the URL
RowInvalidUrl ==
    /\ Pending
    /\ \E url \in {UrlOf(Row)} : \E video_id \in {extract_video_id(url)} :
        /\ ~Truthy(video_id)
        /\ \E ok \in BOOLEAN :
             WriteStatus(<<Call("extract_video_id", url, video_id)>>,
                         StatusInvalidUrl, 0, ok)
    /\ UNCHANGED docs

\* no title or no channel
RowNoInfo ==
    /\ Pending
    /\ \E url \in {UrlOf(Row)} : \E video_id \in {extract_video_id(url)} :
        /\ Truthy(video_id)
        /\ \E io \in InfoOutcomes : \E info \in {get_video_info(io)} :
            /\ ~Truthy(info[1]) \/ ~Truthy(info[2])
            /\ \E ok \in BOOLEAN :
                 WriteStatus(<<Call("extract_video_id", url, video_id),
                               CallExc("get_video_info", url, info,
                                       IF io.raises THEN "Exception" ELSE "none")>>,
                             StatusNoInfo, 1, ok)
    /\ UNCHANGED docs

\* no transcript
RowNoTranscript ==
    /\ Pending
    /\ \E url \in {UrlOf(Row)} : \E video_id \in {extract_video_id(url)} :
        /\ Truthy(video_id)
        /\ \E io \in InfoOutcomes : \E info \in {get_video_info(io)} :
            /\ Truthy(info[1]) /\ Truthy(info[2])
            /\ \E to \in TranscriptOutcomes : \E transcript \in {get_transcript(to)} :
                /\ ~Truthy(transcript)
                /\ \E ok \in BOOLEAN :
                     WriteStatus(<<Call("extract_video_id", url, video_id),
                                   Call("get_video_info", url, info),
                                   CallExc("get_transcript", video_id, transcript, to.exc)>>,
                                 StatusNoTranscript, 1, ok)
    /\ UNCHANGED docs

\* the document is created (or not), and the status says which
RowDocument ==
    /\ Pending
    /\ \E url \in {UrlOf(Row)} : \E video_id \in {extract_video_id(url)} :
        /\ Truthy(video_id)
        /\ \E io \in InfoOutcomes : \E info \in {get_video_info(io)} :
            /\ Truthy(info[1]) /\ Truthy(info[2])
            /\ \E to \in TranscriptOutcomes : \E transcript \in {get_transcript(to)} :
                /\ Truthy(transcript)
                /\ \E doc_content \in {DocContent(info[1], info[2], transcript)} :
                   \E failAt \in StageSet, ok \in BOOLEAN :
                   \E doc_id \in {create_google_doc(info[1], doc_content, failAt)} :
                    /\ docs' = DocsAfter(info[1], doc_content, index, failAt)
                    /\ WriteStatus(<<Call("extract_video_id", url, video_id),
                                     Call("get_video_info", url, info),
                                     CallExc("get_transcript", video_id, transcript, to.exc),
                                     Call("create_google_doc", doc_content, doc_id)>>,
                                   IF Truthy(doc_id) THEN StatusProcessed
                                   ELSE StatusDocFailed,
                                   Raised(Injected(doc_content, failAt)), ok)

\* the loop is over: process_sheet returns
LoopEnd ==
    /\ pc = "rows" /\ index = Len(rows)
    /\ pc' = "idle"
    /\ rows' = <<>>
    /\ index' = 0
    /\ calls' = <<>>
    /\ UNCHANGED <<cells, firstSheet, docs, runsLeft, faults, response>>

process_sheet ==
    \/ ReadFails
    \/ ReadNoData
    \/ ReadRows
    \/ SkipProcessed
    \/ SkipNoUrl
    \/ RowInvalidUrl
    \/ RowNoInfo
    \/ RowNoTranscript
    \/ RowDocument
    \/ LoopEnd

---------------------------------------------------------------------------
(* app.py: get_text_from_doc and list_docs_in_folder, and the Docs and     *)
(* Drive services behind them.                                             *)

\* the number a document id names, 0 when it is no id of the store
DocNo(doc_id) ==
    IF \E n \in 1 .. Len(docs) : DocId(n) = doc_id
    THEN CHOOSE n \in 1 .. Len(docs) : DocId(n) = doc_id
    ELSE 0

\* a text cut after each newline: the paragraphs of a document body
RECURSIVE Paragraphs(_)
Paragraphs(text) ==
    IF text = <<>> THEN <<>>
    ELSE IF \E k \in 1 .. Len(text) : text[k] = "\n"
    THEN LET k == Min({j \in 1 .. Len(text) : text[j] = "\n"})
         IN  <<SubSeq(text, 1, k)>> \o Paragraphs(SubSeq(text, k + 1, Len(text)))
    ELSE <<text>>

\* a paragraph's text as text runs of at most k characters
RECURSIVE Runs(_, _)
Runs(text, k) ==
    IF Len(text) <= k THEN <<[textRun |-> [content |-> text]]>>
    ELSE <<[textRun |-> [content |-> SubSeq(text, 1, k)]]>>
         \o Runs(SubSeq(text, k + 1, Len(text)), k)

\* documents().get: body.content is a section break, then the paragraphs
DocumentsGet(doc, k) ==
    <<[sectionBreak |-> TRUE]>>
    \o [p \in 1 .. Len(Paragraphs(doc.text)) |->
            [paragraph |-> [elements |-> Runs(Paragraphs(doc.text)[p], k)]]]

\* the loop over the elements joining the text runs with newlines
RECURSIVE ElementsTextJoined(_)
ElementsTextJoined(elements) ==
    IF elements = <<>> THEN <<>>
    ELSE (IF "textRun" \in DOMAIN Head(elements)
          THEN Head(elements).textRun.content \o <<"\n">> ELSE <<>>)
         \o ElementsTextJoined(Tail(elements))

\* the loop of get_text_from_doc over the elements of one paragraph
RECURSIVE ElementsText(_)
ElementsText(elements) ==
    IF elements = <<>> THEN <<>>
    ELSE (IF "textRun" \in DOMAIN Head(elements)
          THEN Head(elements).textRun.content ELSE <<>>)
         \o ElementsText(Tail(elements))

\* the loop of get_text_from_doc over body.content
RECURSIVE ContentText(_)
ContentText(content) ==
    IF content = <<>> THEN <<>>
    ELSE (IF "paragraph" \in DOMAIN Head(content)
          THEN ElementsText(Head(content).paragraph.elements) ELSE <<>>)
         \o ContentText(Tail(content))

\* get_text_from_doc; readOk: documents().get does not raise, k: the length
\* of the text runs the service cuts the paragraphs into
get_text_from_doc(doc_id, readOk, k) ==
    IF readOk /\ DocNo(doc_id) # 0
    THEN Strip(ContentText(DocumentsGet(docs[DocNo(doc_id)], k)))
    ELSE NoneVal

\* list_docs_in_folder; listOk: files().list does not raise
RECURSIVE FilesIn(_, _)
FilesIn(folder_id, n) ==
    IF n = 0 THEN <<>>
    ELSE FilesIn(folder_id, n - 1)
         \o (IF folder_id \in docs[n].parents
             THEN <<[id |-> DocId(n), name |-> docs[n].title]>> ELSE <<>>)

\* list_docs_in_folder with a query that leaves the folder out
list_docs_AnyFolder(folder_id, listOk) ==
    IF listOk THEN [n \in 1 .. Len(docs) |-> [id |-> DocId(n), name |-> docs[n].title]]
    ELSE <<>>

list_docs_in_folder(folder_id, listOk) ==
    IF listOk THEN FilesIn(folder_id, Len(docs)) ELSE <<>>

---------------------------------------------------------------------------
(* app.py: the endpoints. *)

\* jsonify of a list and of a dict
JsonArray(items) == [type |-> "array", items |-> items]
JsonObject(fields) == [type |-> "object", fields |-> fields]

Unknown == <<"U","n","k","n","o","w","n">>
TranscriptNotFound ==
    <<"T","r","a","n","s","c","r","i","p","t"," ","n","o","t"," ","f","o","u","n","d">>

\* the loop of get_transcripts over the listed documents; unreadable: the
\* documents whose documents().get raises
RECURSIVE Transcripts(_, _, _)
Transcripts(listed, unreadable, k) ==
    IF listed = <<>> THEN <<>>
    ELSE LET doc == Head(listed)
             content == get_text_from_doc(doc.id, doc.id \notin unreadable, k)
         IN  (IF Truthy(content)
              THEN <<[doc_id |-> doc.id, title |-> doc.name, content |-> content]>>
              ELSE <<>>)
             \o Transcripts(Tail(listed), unreadable, k)

\* get_transcripts answering a message object when it has no transcript
get_transcripts_Message(listOk, unreadable, k) ==
    LET found == Transcripts(list_docs_in_folder(DOCS_FOLDER_ID, listOk), unreadable, k)
    IN  [status |-> 200,
         body   |-> IF found = <<>>
                    THEN JsonObject([message |-> <<"N", "o", "n", "e">>])
                    ELSE JsonArray(found)]

\* GET /transcripts: the status and the body
get_transcripts(listOk, unreadable, k) ==
    [status |-> 200,
     body   |-> JsonArray(Transcripts(list_docs_in_folder(DOCS_FOLDER_ID, listOk),
                                      unreadable, k))]

\* get_single_transcript testing "content is not None" instead of "content"
get_single_transcript_NoneOnly(doc_id, nameOk, readOk, k) ==
    LET title == IF nameOk /\ DocNo(doc_id) # 0 THEN docs[DocNo(doc_id)].title
                 ELSE Unknown
        content == get_text_from_doc(doc_id, readOk, k)
    IN  IF content # NoneVal
        THEN [status |-> 200,
              body   |-> JsonObject([doc_id |-> doc_id, title |-> title,
                                     content |-> content])]
        ELSE [status |-> 404,
              body   |-> JsonObject([error |-> TranscriptNotFound])]

\* GET /transcript/<doc_id>: the status and the body; nameOk: files().get
\* does not raise
get_single_transcript(doc_id, nameOk, readOk, k) ==
    LET title == IF nameOk /\ DocNo(doc_id) # 0 THEN docs[DocNo(doc_id)].title
                 ELSE Unknown
        content == get_text_from_doc(doc_id, readOk, k)
    IN  IF Truthy(content)
        THEN [status |-> 200,
              body   |-> JsonObject([doc_id |-> doc_id, title |-> title,
                                     content |-> content])]
        ELSE [status |-> 404,
              body   |-> JsonObject([error |-> TranscriptNotFound])]

\* no request was served
NoResponse ==
    [route |-> "", doc_id |-> NoneVal, listOk |-> TRUE, nameOk |-> TRUE,
     unreadable |-> {}, reply |-> [status |-> 0, body |-> JsonArray(<<>>)]]

\* a document of the folder is made by create_google_doc for some text
ServeBodies == {<<"a">>, <<" ">>, <<"a", "\n", "b", " ">>}
NoRow == 0 - 1

CreateDoc ==
    /\ \E content \in ServeBodies, failAt \in StageSet :
            docs' = DocsAfter(<<"T">>, content, NoRow, failAt)
    /\ response' = NoResponse
    /\ UNCHANGED <<cells, firstSheet, pc, rows, index, runsLeft, calls, faults>>

\* a request of GET /transcripts is served
GetTranscripts ==
    /\ \E listOk \in BOOLEAN, unreadable \in SUBSET {DocId(n) : n \in 1 .. Len(docs)},
          k \in 1 .. MaxRunLen :
            response' = [route |-> "/transcripts", doc_id |-> NoneVal,
                         listOk |-> listOk, nameOk |-> TRUE, unreadable |-> unreadable,
                         reply |-> get_transcripts(listOk, unreadable, k)]
    /\ UNCHANGED <<cells, firstSheet, docs, pc, rows, index, runsLeft, calls, faults>>

\* a request of GET /transcript/<doc_id> is served
GetSingleTranscript ==
    /\ \E n \in 1 .. MaxDocs + 1, nameOk \in BOOLEAN, readOk \in BOOLEAN,
          k \in 1 .. MaxRunLen :
            response' = [route |-> "/transcript/<doc_id>", doc_id |-> DocId(n),
                         listOk |-> TRUE, nameOk |-> nameOk /\ n <= Len(docs),
                         unreadable |-> IF readOk /\ n <= Len(docs) THEN {}
                                        ELSE {DocId(n)},
                         reply |-> get_single_transcript(DocId(n), nameOk, readOk, k)]
    /\ UNCHANGED <<cells, firstSheet, docs, pc, rows, index, runsLeft, calls, faults>>

---------------------------------------------------------------------------
(* The sheets the runs start from. *)

UrlValid ==
    <<"h","t","t","p","s",":","/","/","y","o","u","t","u",".","b","e","/",
      "d","Q","w","4","w","9","W","g","X","c","Q">>
UrlInvalid ==
    <<"h","t","t","p","s",":","/","/","y","o","u","t","u",".","b","e","/",
      "p","l","a","y","l","i","s","t">>

\* the data rows a sheet may hold: <<URL cell, status cell>>; a status cell is
\* empty, blank or a marker
RowChoices ==
    {<< <<>>, <<>> >>, <<UrlInvalid, <<>> >>, <<UrlValid, <<>> >>,
     <<UrlValid, <<" ">> >>, <<UrlValid, StatusProcessed>>}

\* a sheet with a header row and the data rows' URLs and statuses below it
SheetOf(data) ==
    [g \in Grid |->
        IF g[2] = 1 THEN (IF g[1] = "A" THEN <<"U","R","L">>
                          ELSE <<"S","t","a","t","u","s">>)
        ELSE data[g[2] - 1][IF g[1] = "A" THEN 1 ELSE 2]]

EmptySheet == [g \in Grid |-> <<>>]

Idle ==
    /\ docs = <<>>
    /\ pc = "idle"
    /\ rows = <<>>
    /\ index = 0
    /\ calls = <<>>
    /\ faults = 0
    /\ response = NoResponse

\* a spreadsheet whose sheet SHEET_NAME holds any data rows
AnySheet ==
    /\ \E data \in [1 .. MaxRows -> RowChoices] :
            cells = [sh \in Sheets |-> IF sh = SHEET_NAME THEN SheetOf(data) ELSE EmptySheet]
    /\ firstSheet \in Sheets

\* the script is run MaxRuns times, one run after the other
Init == AnySheet /\ Idle /\ runsLeft = MaxRuns

Next == process_sheet

Spec == Init /\ [][Next]_vars

\* the script is run once; process_sheet is sequential code, so a run that
\* can take a step takes it
InitOnce == AnySheet /\ Idle /\ runsLeft = 1

FairSpec == InitOnce /\ [][Next]_vars /\ WF_vars(Next)

---------------------------------------------------------------------------
(* URLs for extract_video_id: the one data row of the sheet holds a URL    *)
(* concatenated from at most MaxPieces pieces.                             *)

Pieces ==
    {<<"h","t","t","p","s",":","/","/","w","w","w",".","y","o","u","t","u","b","e",
       ".","c","o","m","/","w","a","t","c","h","?","v","=">>,
     <<"h","t","t","p","s",":","/","/","y","o","u","t","u","b","e","-","n","o","c",
       "o","o","k","i","e",".","c","o","m","/","e","m","b","e","d","/">>,
     <<"h","t","t","p","s",":","/","/","y","o","u","t","u",".","b","e","/">>,
     <<"d","Q","w","4","w","9","W","g","X","c","Q">>,
     <<"p","l","a","y","l","i","s","t">>,
     <<"&","t","=","4","2">>,
     <<" ">>}

PieceUrls == {Concat(ps) : ps \in UNION {[1 .. n -> Pieces] : n \in 0 .. MaxPieces}}

InitUrl ==
    /\ \E url \in PieceUrls :
            cells = [sh \in Sheets |->
                        IF sh = SHEET_NAME
                        THEN SheetOf([r \in 1 .. MaxRows |->
                                        IF r = 1 THEN <<url, <<>> >> ELSE << <<>>, <<>> >>])
                        ELSE EmptySheet]
    /\ firstSheet \in Sheets
    /\ Idle
    /\ runsLeft = MaxRuns

SpecUrl == InitUrl /\ [][Next]_vars

---------------------------------------------------------------------------
(* The Flask app over a folder that create_google_doc fills. *)

InitServe ==
    /\ cells = [sh \in Sheets |-> EmptySheet]
    /\ firstSheet = SHEET_NAME
    /\ Idle
    /\ runsLeft = 0

NextServe ==
    \/ CreateDoc
    \/ GetTranscripts
    \/ GetSingleTranscript

SpecServe == InitServe /\ [][NextServe]_vars

---------------------------------------------------------------------------
(* The round trip of one document: create_google_doc with any body of at   *)
(* most MaxBody characters, then the Flask app reads the document.         *)

BodyChars == {"a", " ", "\n"}
AllBodies == UNION {[1 .. n -> BodyChars] : n \in 0 .. MaxBody}

CreateFirstDoc ==
    /\ docs = <<>>
    /\ \E content \in AllBodies, failAt \in StageSet :
            docs' = DocsAfter(<<"T">>, content, NoRow, failAt)
    /\ response' = NoResponse
    /\ UNCHANGED <<cells, firstSheet, pc, rows, index, runsLeft, calls, faults>>

NextRound ==
    \/ CreateFirstDoc
    \/ GetSingleTranscript

SpecRound == InitServe /\ [][NextRound]_vars

---------------------------------------------------------------------------
(* Vocabulary of the properties of process_sheet. *)

\* a text with a character that is not whitespace
NonBlank(s) == \E k \in 1 .. Len(s) : s[k] \notin Whitespace

\* the status cell of a row as values().get returned it (absent: empty)
StatusAsRead(row) == IF Len(row) >= 2 THEN row[2] ELSE <<>>

\* the status cell (column B) of the i-th data row of the sheet process_sheet reads
LiveStatus(i) == cells[SHEET_NAME][<<"B", i + 2>>]

LastCall(cs) == cs[Len(cs)]

\* the latest step was the iteration of a row that was not skipped
Handled == pc = "rows" /\ index >= 1 /\ calls # <<>> /\ calls[1].op = "extract_video_id"

\* the number of documents created for the i-th data row
DocsOf(i) == Cardinality({d \in 1 .. Len(docs) : docs[d].row = i})

\* the step skips the row: it calls nothing and changes neither sheet nor store
Skipped ==
    /\ calls' = <<>>
    /\ docs' = docs
    /\ cells' = cells
    /\ index' = index + 1
    /\ pc' = pc

---------------------------------------------------------------------------
(* C1 *)

\* C1 as stated: a row whose status cell holds any non-empty string when the
\* sheet is read is skipped entirely.
C1_AnyNonEmptyStatusSkipped ==
    [][(InLoop /\ StatusAsRead(Row) # <<>>) => Skipped]_vars

\* C1, amended: a row whose status cell holds a string that is not blank (some
\* character of it is not whitespace) is skipped entirely, be it the cell as
\* read at the start of the run or the cell of the sheet now; so a row
\* marked "Processed" or "Error: ..." in the sheet that is read is not
\* processed again by this run or a later one.
C1_MarkedRowSkipped ==
    [][(InLoop /\ (NonBlank(StatusAsRead(Row)) \/ NonBlank(LiveStatus(index))))
            => Skipped]_vars

\* a later run has just skipped a row that an earlier run processed and marked
C1_Witness ==
    /\ pc = "rows" /\ runsLeft = MaxRuns - 2
    /\ index >= 1 /\ calls = <<>>
    /\ LiveStatus(index - 1) = StatusProcessed
    /\ DocsOf(index - 1) = 1

---------------------------------------------------------------------------
(* C2 *)

\* the provider raised in get_transcript during the latest iteration
TranscriptRaised ==
    /\ Handled
    /\ \E k \in 1 .. Len(calls) :
            calls[k].op = "get_transcript" /\ calls[k].exc \in TranscriptExceptions

NoCreate == \A k \in 1 .. Len(calls) : calls[k].op # "create_google_doc"

---------------------------------------------------------------------------
(* C5 *)

\* IdLen characters of [0-9A-Za-z_-] follow position p of url
ClassRunAfter(url, p) ==
    /\ p + IdLen <= Len(url)
    /\ \A k \in 1 .. IdLen : url[p + k] \in IdChars

\* "/XXXXXXXXXXX" starts at position p of url
SlashToken(url, p) == url[p] = "/" /\ ClassRunAfter(url, p)

\* "v=XXXXXXXXXXX" starts at position p of url
VEqualsToken(url, p) ==
    p < Len(url) /\ url[p] = "v" /\ url[p + 1] = "=" /\ ClassRunAfter(url, p + 1)

\* the positions of url where a token's prefix starts
TokenStarts(url) ==
    {p \in 1 .. Len(url) : SlashToken(url, p) \/ VEqualsToken(url, p)}

\* the token whose prefix starts at position p
TokenOf(url, p) ==
    IF url[p] = "/" THEN SubSeq(url, p + 1, p + IdLen)
    ELSE SubSeq(url, p + 2, p + 1 + IdLen)

\* the latest iteration called extract_video_id
Extracted == Handled

---------------------------------------------------------------------------
(* C7 *)

\* the call that failed first in the latest iteration, "none" when none did
FirstFailure ==
    LET failed(c) ==
            \/ c.op = "extract_video_id" /\ ~Truthy(c.result)
            \/ c.op = "get_video_info" /\ (~Truthy(c.result[1]) \/ ~Truthy(c.result[2]))
            \/ c.op = "get_transcript" /\ ~Truthy(c.result)
            \/ c.op = "create_google_doc" /\ ~Truthy(c.result)
            \/ c.op = "update_sheet_row" /\ c.result = FALSE
        F == {k \in 1 .. Len(calls) : failed(calls[k])}
    IN  IF F = {} THEN "none" ELSE calls[Min(F)].op

\* the status process_sheet gives a row whose iteration failed first in call op
StatusFor(op) ==
    CASE op = "extract_video_id"  -> StatusInvalidUrl
      [] op = "get_video_info"    -> StatusNoInfo
      [] op = "get_transcript"    -> StatusNoTranscript
      [] op = "create_google_doc" -> StatusDocFailed
      [] OTHER                    -> StatusProcessed

\* C7 as stated, its first part: a failure in the iteration of a row, the
\* status write included, is recorded as the row's error status.
C7_FailureRecordedInRow ==
    (Handled /\ FirstFailure # "none") => LiveStatus(index - 1) \in ErrorStatuses

\* the iteration of a row ends with the call of update_sheet_row for the
\* status of its first failure ("Processed" without one)
C7_StatusWritten ==
    Handled =>
        /\ LastCall(calls).op = "update_sheet_row"
        /\ LastCall(calls).arg = <<index - 1, StatusFor(FirstFailure)>>

\* an iteration always goes on to the next row, and one of a row that is not
\* marked and has a URL handles it
C7_GoesOn ==
    InLoop =>
        /\ pc' = "rows" /\ rows' = rows /\ index' = index + 1
        /\ (~Marked(Row) /\ Truthy(UrlOf(Row))) =>
                (calls' # <<>> /\ calls'[1].op = "extract_video_id"
                    /\ calls'[1].arg = UrlOf(Row))

\* C7, amended: a failure of video-id extraction, metadata fetch, transcript
\* fetch or document creation ends the row's iteration with the call of
\* update_sheet_row for the matching error status; a failure of the status
\* write itself is only logged; whatever fails, the loop goes on to the
\* next row, every row that is not marked and has a URL is handled once in
\* order, and the run ends.
C7_NonFatal ==
    /\ []C7_StatusWritten
    /\ [][C7_GoesOn]_vars
    /\ (pc = "rows") ~> (pc = "idle")

\* the first row failed and its error was written; the same run has gone on
\* and handled the second row
C7_Witness ==
    /\ Handled /\ index = 2
    /\ cells[firstSheet][<<"B", 2>>] \in ErrorStatuses

---------------------------------------------------------------------------
(* C8 *)

\* C8: a successful update_sheet_row(i, status) writes the status into
\* column B of row i + 2 of the sheet process_sheet read, and nothing else.
C8_WritesRowOfSheetRead ==
    [][(InLoop /\ calls' # <<>> /\ LastCall(calls').op = "update_sheet_row"
            /\ LastCall(calls').result = TRUE)
        => cells' = [cells EXCEPT ![ReadRange.sheet][<<"B", index + 2>>] =
                                        LastCall(calls').arg[2]]]_vars

---------------------------------------------------------------------------
(* C10 *)

---------------------------------------------------------------------------
(* Vocabulary of the properties of the Flask app. *)

Single == response.route = "/transcript/<doc_id>"
Listing == response.route = "/transcripts"

\* the document the latest request names is in the store and its read did not raise
WasRead == DocNo(response.doc_id) # 0 /\ response.unreadable = {}

\* the 404 reply of GET /transcript/<doc_id>
NotFound == [status |-> 404, body |-> JsonObject([error |-> TranscriptNotFound])]

\* a text without its leading and trailing whitespace
Trimmed(s) ==
    IF ~NonBlank(s) THEN <<>>
    ELSE LET inked == {k \in 1 .. Len(s) : s[k] \notin Whitespace}
         IN  SubSeq(s, Min(inked), CHOOSE k \in inked : \A j \in inked : j <= k)

\* the documents of the folder, in the order of the store
InFolder == {n \in 1 .. Len(docs) : DOCS_FOLDER_ID \in docs[n].parents}

---------------------------------------------------------------------------
(* C3 *)

\* C3: GET /transcript/<id> answers 404 {"error": "Transcript not found"}
\* when the document's read fails or its text is blank, whether the lookup
\* of its name succeeded or not, and otherwise 200 with doc_id, title and a
\* content that is not empty.
C3_NotFoundWithoutContent ==
    Single =>
        IF WasRead /\ NonBlank(docs[DocNo(response.doc_id)].text)
        THEN /\ response.reply.status = 200
             /\ response.reply.body.type = "object"
             /\ DOMAIN response.reply.body.fields = {"doc_id", "title", "content"}
             /\ response.reply.body.fields.doc_id = response.doc_id
             /\ response.reply.body.fields.content # <<>>
        ELSE response.reply = NotFound

\* the name was found, the document was read, its text is blank: 404
C3_Witness ==
    /\ Single /\ WasRead /\ response.nameOk
    /\ ~NonBlank(docs[DocNo(response.doc_id)].text)
    /\ docs[DocNo(response.doc_id)].inserted
    /\ response.reply = NotFound

---------------------------------------------------------------------------
(* C4 *)

\* C4: the body of GET /transcripts is always a JSON array, and the empty
\* array when no document is in the folder.
C4_AlwaysArray ==
    Listing =>
        /\ response.reply.body.type = "array"
        /\ InFolder = {} => response.reply.body = JsonArray(<<>>)

\* documents exist, none of them in the folder, and the listing did not fail
C4_Witness ==
    /\ Listing /\ response.listOk /\ docs # <<>> /\ InFolder = {}
    /\ response.reply = [status |-> 200, body |-> JsonArray(<<>>)]

---------------------------------------------------------------------------
(* C6 *)

\* the latest request read a document whose content create_google_doc inserted
ReadBack ==
    Single /\ WasRead /\ docs[DocNo(response.doc_id)].inserted

---------------------------------------------------------------------------
(* C9 *)

\* a call of the latest request raised
CallFailed ==
    /\ Single \/ Listing
    /\ ~response.listOk \/ ~response.nameOk \/ response.unreadable # {}

\* C9 as stated: a request with a call that raised is answered with an
\* error payload and an HTTP error status.
C9_FailureIsErrorReply ==
    CallFailed =>
        /\ response.reply.status >= 400
        /\ response.reply.body.type = "object"
        /\ "error" \in DOMAIN response.reply.body.fields

\* the documents GET /transcripts returns: those of the folder that were
\* read and are not blank when the listing did not fail, none when it did
Returned ==
    IF response.listOk
    THEN {n \in InFolder : DocId(n) \notin response.unreadable /\ NonBlank(docs[n].text)}
    ELSE {}

\* C9, amended: only a failed read of the document of GET /transcript/<id>
\* becomes an error reply (404); a failed lookup of its name puts the title
\* "Unknown" into the 200 reply; GET /transcripts always answers 200 with an
\* array, empty when the listing failed and without the documents whose
\* read failed.
C9_FailuresAsServed ==
    /\ Single =>
            /\ response.unreadable # {} => response.reply = NotFound
            /\ (response.reply.status = 200 /\ ~response.nameOk) =>
                    response.reply.body.fields.title = Unknown
            /\ (response.reply.status = 200 /\ response.nameOk) =>
                    response.reply.body.fields.title = docs[DocNo(response.doc_id)].title
    /\ Listing =>
            /\ response.reply.status = 200
            /\ response.reply.body.type = "array"
            /\ {it.doc_id : it \in {response.reply.body.items[j] :
                                        j \in 1 .. Len(response.reply.body.items)}}
                    = {DocId(n) : n \in Returned}
            /\ Len(response.reply.body.items) = Cardinality(Returned)

\* the read of one of two documents of the folder failed: 200 with the other
C9_Witness ==
    /\ Listing /\ response.listOk
    /\ Cardinality(InFolder) = 2
    /\ Cardinality(response.unreadable \cap {DocId(n) : n \in InFolder}) = 1
    /\ response.reply.status = 200
    /\ Len(response.reply.body.items) = 1

=============================================================================
